---- MODULE Spec2Model ----
\* Model of Potjans_2014/network.py: the Network class that derives the scaled
\* parameters of the microcircuit (__derive_parameters), builds the connection
\* rules handed to NEST (the __connect_ methods) and sequences the engine calls
\* of create(), connect() and simulate().
\*
\* Real numbers are exact rationals <<numerator, denominator>> with a positive
\* denominator; infinite clip bounds are the strings "-inf" and "inf"; a key
\* that a dictionary does not hold is the string "absent".
EXTENDS Integers, Sequences, FiniteSets, TLC

VARIABLES sim_dict, net_dict, stim_dict, helpers, self, nest, log, calls, budget

vars == <<sim_dict, net_dict, stim_dict, helpers, self, nest, log, calls, budget>>

-----------------------------------------------------------------------------
\* Bounds of the explored inputs.

\* number of neuronal populations (len(net_dict['populations']))
NumPops == 2
\* expected synapse counts are 5 * e / ExpDen with e in 0 .. MaxExp
MaxExp == 3
ExpDen == 2
\* N_scaling is n / ScaleDen with n in 1 .. ScaleDen
ScaleDen == 2
\* K_scaling is (s / SqrtDen)^2 with s in 1 .. SqrtDen, so that its square root is rational
SqrtDen == 2
\* PSP amplitudes lie in -MaxPSP .. MaxPSP
MaxPSP == 1
\* number of create()/connect()/simulate() calls a caller makes on one Network
MaxCalls == 4
\* the same, for the runs that explore the numeric configurations
PlanCalls == 2

Pops == 1 .. NumPops
\* durations a caller passes to simulate(), in ms
SimTimes == {1, 2}
\* candidate values of a sampled weight or delay, in quarters
Samples == {<<q, 4>> : q \in -8 .. 8}

-----------------------------------------------------------------------------
\* Rational arithmetic.

Rat(n, d) == <<n, d>>
Zero == Rat(0, 1)
One == Rat(1, 1)
RMul(x, y) == <<x[1] * y[1], x[2] * y[2]>>
RDiv(x, y) == IF y[1] > 0 THEN <<x[1] * y[2], x[2] * y[1]>>
                          ELSE <<-(x[1] * y[2]), x[2] * (-y[1])>>
RAdd(x, y) == <<x[1] * y[2] + y[1] * x[2], x[2] * y[2]>>
RSub(x, y) == <<x[1] * y[2] - y[1] * x[2], x[2] * y[2]>>
RAbs(x) == IF x[1] < 0 THEN <<-x[1], x[2]>> ELSE x
REq(x, y) == x[1] * y[2] = y[1] * x[2]
RLt(x, y) == x[1] * y[2] < y[1] * x[2]
RLe(x, y) == x[1] * y[2] <= y[1] * x[2]

\* integer square root of a perfect square
ISqrt(n) == CHOOSE r \in 0 .. n : r * r = n
\* np.sqrt on a rational whose numerator and denominator are perfect squares
Sqrt(x) == <<ISqrt(x[1]), ISqrt(x[2])>>

\* np.round(x).astype(int): round to the nearest integer, ties to the even one
\* variant: truncation in place of rounding
RoundFloor(x) == x[1] \div x[2]
Round(x) ==
    LET fl == x[1] \div x[2]
        twice == 2 * (x[1] - fl * x[2])
    IN  IF twice < x[2] THEN fl
        ELSE IF twice > x[2] THEN fl + 1
        ELSE IF fl % 2 = 0 THEN fl ELSE fl + 1

-----------------------------------------------------------------------------
\* Values returned by the functions of helpers.py, which __derive_parameters
\* delegates to. The variable helpers holds what they return in this run.

\* helpers.adjust_weights_and_input_to_synapse_scaling: returns the corrected
\* weight matrix, external weight and DC amplitudes. The weights grow in
\* magnitude by the factor h.adj_gain, the DC amplitudes are h.adj_DC.
AdjustWeightsAndInput(PSC_matrix_mean, PSC_ext, DC_amp, h) ==
    [W   |-> [i \in Pops |-> [j \in Pops |-> RMul(PSC_matrix_mean[i][j], h.adj_gain)]],
     ext |-> RMul(PSC_ext, h.adj_gain),
     DC  |-> h.adj_DC]

-----------------------------------------------------------------------------
\* Network.__derive_parameters

\* net_dict['K_scaling'] != 1
KScaled(nd) == ~REq(nd.K_scaling, One)

\* self.num_neurons
NumNeurons(nd) ==
    [i \in Pops |-> Round(RMul(Rat(nd.full_num_neurons[i], 1), nd.N_scaling))]

\* one entry of self.num_synapses, from the full-scale count
\* variant: the scaled count truncated instead of rounded
ScaledCountFloor(full, nd) == RoundFloor(RMul(RMul(full, nd.N_scaling), nd.K_scaling))
ScaledCount(full, nd) == Round(RMul(RMul(full, nd.N_scaling), nd.K_scaling))

\* self.num_synapses
NumSynapses(nd, h) ==
    [i \in Pops |-> [j \in Pops |-> ScaledCount(h.full_num_synapses[i][j], nd)]]

\* self.ext_indegrees
ExtIndegrees(nd) ==
    [i \in Pops |-> Round(RMul(Rat(nd.K_ext[i], 1), nd.K_scaling))]

\* PSC_matrix_mean and PSC_ext before the adjustment to the indegree scaling
PSCMatrixMean(nd, h) ==
    [i \in Pops |-> [j \in Pops |-> RMul(nd.PSP_matrix_mean[i][j], h.PSC_over_PSP)]]
PSCExt(nd, h) == RMul(nd.PSP_exc_mean, h.PSC_over_PSP)

\* DC_amp before the adjustment: zero with Poisson input, else the value of
\* helpers.dc_input_compensating_poisson
DCAmpBeforeAdjust(nd, h) ==
    IF nd.poisson_input THEN [i \in Pops |-> Zero] ELSE h.dc_comp

\* the arguments of the call of the adjustment, when it is made
\* variant: the adjustment is given the scaled counts
AdjustCallsScaled(nd, h) ==
    IF KScaled(nd)
    THEN << [full_num_neurons  |-> NumNeurons(nd),
             full_num_synapses |-> [i \in Pops |-> [j \in Pops |->
                                       Rat(NumSynapses(nd, h)[i][j], 1)]],
             K_scaling         |-> nd.K_scaling,
             PSC_matrix_mean   |-> PSCMatrixMean(nd, h),
             PSC_ext           |-> PSCExt(nd, h),
             DC_amp            |-> DCAmpBeforeAdjust(nd, h),
             poisson_input     |-> nd.poisson_input] >>
    ELSE << >>
AdjustCalls(nd, h) ==
    IF KScaled(nd)
    THEN << [full_num_neurons  |-> nd.full_num_neurons,
             full_num_synapses |-> h.full_num_synapses,
             K_scaling         |-> nd.K_scaling,
             PSC_matrix_mean   |-> PSCMatrixMean(nd, h),
             PSC_ext           |-> PSCExt(nd, h),
             DC_amp            |-> DCAmpBeforeAdjust(nd, h),
             poisson_input     |-> nd.poisson_input] >>
    ELSE << >>

Adjusted(nd, h) ==
    AdjustWeightsAndInput(PSCMatrixMean(nd, h), PSCExt(nd, h), DCAmpBeforeAdjust(nd, h), h)

\* self.weight_matrix_mean, self.weight_ext, self.DC_amp
WeightMatrixMean(nd, h) == IF KScaled(nd) THEN Adjusted(nd, h).W ELSE PSCMatrixMean(nd, h)
WeightExt(nd, h) == IF KScaled(nd) THEN Adjusted(nd, h).ext ELSE PSCExt(nd, h)
\* variant: the DC amplitudes of the adjustment are dropped
DCAmpUnadjusted(nd, h) == DCAmpBeforeAdjust(nd, h)
DCAmp(nd, h) == IF KScaled(nd) THEN Adjusted(nd, h).DC ELSE DCAmpBeforeAdjust(nd, h)

\* self.weight_th
\* variant: the weight divided by K_scaling instead of its square root
WeightThNoSqrt(nd, sd, h) ==
    IF KScaled(nd) THEN RDiv(RMul(sd.PSP_th, h.PSC_over_PSP), nd.K_scaling)
                   ELSE RMul(sd.PSP_th, h.PSC_over_PSP)
WeightTh(nd, sd, h) ==
    IF KScaled(nd) THEN RDiv(RMul(sd.PSP_th, h.PSC_over_PSP), Sqrt(nd.K_scaling))
                   ELSE RMul(sd.PSP_th, h.PSC_over_PSP)

\* self.num_th_synapses
NumThSynapses(nd, h) ==
    [i \in Pops |->
        IF KScaled(nd) THEN Round(RMul(h.th_num_synapses[i], nd.K_scaling))
                       ELSE Round(h.th_num_synapses[i])]

\* a handle or attribute that has not been assigned
Unset == [set |-> FALSE, first |-> 0, last |-> 0]
NoPops == [set |-> FALSE, v |-> << >>]

\* before Network(...) is called there is no object
NoObject == [constructed |-> FALSE, raised |-> FALSE]

\* The attributes of the Network object after __init__. With stim_dict = None
\* the subscript stim_dict['thalamic_input'] raises and __init__ does not
\* return an object (constructed = FALSE, raised = TRUE).
DeriveParameters(sd, nd, st, h, revision) ==
    LET hasStim == st.given
        th == hasStim /\ st.thalamic_input
    IN  [constructed        |-> hasStim,
         raised             |-> ~hasStim,
         num_pops           |-> NumPops,
         num_neurons        |-> NumNeurons(nd),
         num_synapses       |-> NumSynapses(nd, h),
         ext_indegrees      |-> ExtIndegrees(nd),
         weight_matrix_mean |-> WeightMatrixMean(nd, h),
         weight_ext         |-> WeightExt(nd, h),
         DC_amp             |-> DCAmp(nd, h),
         has_th             |-> th,
         weight_th          |-> IF th THEN WeightTh(nd, st, h) ELSE Zero,
         num_th_synapses    |-> IF th THEN NumThSynapses(nd, h) ELSE [i \in Pops |-> 0],
         adjust_calls       |-> AdjustCalls(nd, h),
         nest_version       |-> revision,
         sim_resolution     |-> sd.sim_resolution,
         pops               |-> NoPops,
         spike_recorders    |-> Unset,
         voltmeters         |-> Unset,
         poisson_bg_input   |-> Unset,
         thalamic_population |-> Unset,
         poisson_th         |-> Unset,
         dc_stim_input      |-> Unset]

-----------------------------------------------------------------------------
\* The NEST kernel, as network.py uses it.

\* state of the kernel after nest.ResetKernel()
NestReset(revision) ==
    [revision |-> revision, prepared |-> FALSE, time |-> 0, nodes |-> 0, conns |-> << >>,
     fault |-> "none"]

\* a kernel in which one kind of call fails for a cause of its own:
\* "prepare" makes every nest.Prepare() raise, the kind of a connection makes
\* every nest.Connect of that kind raise; a reset does not remove the cause
Faults == {"prepare", "rec", "spike_recorder", "voltmeter", "poisson",
           "th_generator", "th", "dc"}
Faulty(e, f) == [e EXCEPT !.fault = f]

\* nest.Create(model, n): n new nodes; the handle names their ids
Handle(e, n) == [set |-> TRUE, first |-> e.nodes + 1, last |-> e.nodes + n]
NestCreate(e, n) == [e EXCEPT !.nodes = @ + n]

\* nest.Connect(source, target, conn_spec, syn_spec)
ConnectRaises(e, c) == e.fault = c.kind
NestConnect(e, c) == [e EXCEPT !.conns = Append(@, c)]

\* nest.Prepare(): raises when the kernel is already prepared, or for the
\* kernel's own cause
PrepareRaises(e) == e.prepared \/ e.fault = "prepare"
NestPrepare(e) == [e EXCEPT !.prepared = TRUE]

\* nest.Run(t): raises when the kernel is not prepared, else advances the time
RunRaises(e) == ~e.prepared
NestRun(e, t) == [e EXCEPT !.time = @ + t]

\* nest.Cleanup(): raises when the kernel is not prepared, else ends the
\* prepared state that nest.Prepare() began
CleanupRaises(e) == ~e.prepared
NestCleanup(e) == [e EXCEPT !.prepared = FALSE]

-----------------------------------------------------------------------------
\* A method runs on a record m = [self, nest, log, exc, call]: the attributes
\* of the object, the kernel, the kernel calls issued so far, whether an
\* exception is propagating, and the number of the method call.

\* what a kernel call leaves behind, as the log records it
After(e) == [prepared |-> e.prepared, time |-> e.time, nodes |-> e.nodes,
             conns |-> Len(e.conns)]

\* one kernel call: logged, applied when it does not raise
Issue(m, op, arg, t, raises, e2) ==
    IF m.exc THEN m
    ELSE [m EXCEPT !.nest = IF raises THEN @ ELSE e2,
                   !.log  = Append(@, [op |-> op, arg |-> arg, t |-> t, ok |-> ~raises,
                                       call |-> m.call,
                                       after |-> After(IF raises THEN m.nest ELSE e2)]),
                   !.exc  = raises]

Raise(m) == [m EXCEPT !.exc = TRUE]

Create(m, model, n) == Issue(m, "Create", model, 0, FALSE, NestCreate(m.nest, n))
Connect(m, c) ==
    Issue(m, "Connect", c.kind, 0, ConnectRaises(m.nest, c), NestConnect(m.nest, c))
Prepare(m) == Issue(m, "Prepare", "", 0, PrepareRaises(m.nest), NestPrepare(m.nest))
Run(m, t) == Issue(m, "Run", "", t, RunRaises(m.nest), NestRun(m.nest, t))
Cleanup(m) == Issue(m, "Cleanup", "", 0, CleanupRaises(m.nest), NestCleanup(m.nest))

-----------------------------------------------------------------------------
\* Network.create and its steps

V0Valid == net_dict.V0_type \in {"optimized", "original"}

\* one pass of the loop of __create_neuronal_populations
RECURSIVE CreatePopsFrom(_, _)
CreatePopsFrom(m, i) ==
    IF m.exc \/ i > NumPops THEN m
    ELSE LET h  == Handle(m.nest, m.self.num_neurons[i])
             m1 == Create(m, "neuron", m.self.num_neurons[i])
             m2 == IF V0Valid THEN [m1 EXCEPT !.self.pops.v = Append(@, h)]
                              ELSE Raise(m1)
         IN  CreatePopsFrom(m2, i + 1)

\* variant: the populations are created from counts derived a second time
CreateNeuronalPopulationsRederived(m) ==
    IF m.exc THEN m
    ELSE CreatePopsFrom(
             [m EXCEPT !.self.pops = [set |-> TRUE, v |-> << >>],
                       !.self.num_neurons =
                           [i \in Pops |-> ScaledCount(Rat(@[i], 1), net_dict)]], 1)

CreateNeuronalPopulations(m) ==
    IF m.exc THEN m
    ELSE CreatePopsFrom([m EXCEPT !.self.pops = [set |-> TRUE, v |-> << >>]], 1)

CreateRecordingDevices(m) ==
    IF m.exc THEN m
    ELSE LET m1 == IF "spike_recorder" \in sim_dict.rec_dev
                   THEN [Create(m, "spike_recorder", NumPops)
                            EXCEPT !.self.spike_recorders = Handle(m.nest, NumPops)]
                   ELSE m
             m2 == IF "voltmeter" \in sim_dict.rec_dev
                   THEN [Create(m1, "voltmeter", NumPops)
                            EXCEPT !.self.voltmeters = Handle(m1.nest, NumPops)]
                   ELSE m1
         IN  m2

CreatePoissonBgInput(m) ==
    IF m.exc THEN m
    ELSE [Create(m, "poisson_generator", NumPops)
             EXCEPT !.self.poisson_bg_input = Handle(m.nest, NumPops)]

CreateThalamicStimInput(m) ==
    IF m.exc THEN m
    ELSE LET m1 == [Create(m, "parrot_neuron", stim_dict.num_th_neurons)
                       EXCEPT !.self.thalamic_population =
                                  Handle(m.nest, stim_dict.num_th_neurons)]
         IN  [Create(m1, "poisson_generator", 1)
                 EXCEPT !.self.poisson_th = Handle(m1.nest, 1)]

\* revision 3 creates the generators in one call, revision 2 in one call per
\* amplitude
RECURSIVE CreateDcFrom(_, _)
CreateDcFrom(m, i) ==
    IF i > NumPops THEN m
    ELSE CreateDcFrom(Create(m, "dc_generator", NumPops), i + 1)

CreateDcStimInput(m) ==
    IF m.exc THEN m
    ELSE IF m.self.nest_version = "3"
         THEN [Create(m, "dc_generator", NumPops)
                  EXCEPT !.self.dc_stim_input = Handle(m.nest, NumPops)]
         ELSE [CreateDcFrom(m, 1)
                  EXCEPT !.self.dc_stim_input = Handle(m.nest, NumPops * NumPops)]

DoCreate(m) ==
    LET m1 == CreateNeuronalPopulations(m)
        m2 == IF sim_dict.rec_dev # {} THEN CreateRecordingDevices(m1) ELSE m1
        m3 == IF net_dict.poisson_input THEN CreatePoissonBgInput(m2) ELSE m2
        m4 == IF stim_dict.thalamic_input THEN CreateThalamicStimInput(m3) ELSE m3
        m5 == IF stim_dict.dc_input THEN CreateDcStimInput(m4) ELSE m4
    IN  m5

-----------------------------------------------------------------------------
\* Connection rules: conn_spec and syn_spec of one nest.Connect call

\* a clip bound: a number, an infinity, or a key the dictionary does not hold
Fin(x) == [k |-> "fin", v |-> x]
PosInf == [k |-> "inf", v |-> Zero]
NegInf == [k |-> "-inf", v |-> Zero]
Absent == [k |-> "absent", v |-> Zero]

Normal(mean, std, min, max) ==
    [dist |-> "normal", mean |-> mean, std |-> std, min |-> min, max |-> max]
Const(x) == [dist |-> "const", mean |-> x, std |-> Zero, min |-> Absent, max |-> Absent]
Default == Const(One)

\* the kernel accepts a drawn value x of a clipped distribution iff it lies
\* within the bounds the rule gives; anything else is drawn again
Accepts(d, x) ==
    /\ (d.min.k = "fin" => RLe(d.min.v, x))
    /\ (d.max.k = "fin" => RLe(x, d.max.v))

\* weight of a recurrent connection with mean w (both revisions give the
\* upper bound 0 to a negative mean and the lower bound 0 otherwise)
RecWeight(w, version) ==
    IF version = "3"
    THEN Normal(w, RAbs(RMul(w, net_dict.weight_rel_std)),
                IF RLt(w, Zero) THEN NegInf ELSE Fin(Zero),
                IF RLt(w, Zero) THEN Fin(Zero) ELSE PosInf)
    ELSE Normal(w, RAbs(RMul(w, net_dict.weight_rel_std)),
                IF RLt(w, Zero) THEN Absent ELSE Fin(Zero),
                IF RLt(w, Zero) THEN Fin(Zero) ELSE Absent)

\* lower clip bound of a delay: revision 3 passes
\* nest.resolution - 0.5 * nest.resolution, revision 2 passes sim_resolution
\* variant: delays clipped at zero
DelayMinZero(res, version) == Fin(Zero)
DelayMin(res, version) ==
    IF version = "3" THEN Fin(RSub(res, RMul(Rat(1, 2), res)))
                     ELSE Fin(res)

\* delay of a connection with mean d and relative standard deviation r
Delay(d, r, res, version) ==
    Normal(d, RMul(d, r), DelayMin(res, version),
           IF version = "3" THEN PosInf ELSE Absent)

\* weight of a thalamic connection: the lower bound is 0 whatever the mean
ThWeight(w, version) ==
    Normal(w, RMul(w, net_dict.weight_rel_std), Fin(Zero),
           IF version = "3" THEN PosInf ELSE Absent)

ConnRec(kind, tgt, src, rule, N, weight, delay) ==
    [kind |-> kind, tgt |-> tgt, src |-> src, rule |-> rule, N |-> N,
     weight |-> weight, delay |-> delay]

-----------------------------------------------------------------------------
\* Network.connect and its steps

\* one population pair: the rule goes to nest.Connect unless N is negative
\* variant: a pair without synapses is left out
ConnectPairPositive(m, c) == IF c.N > 0 THEN Connect(m, c) ELSE m
ConnectPair(m, c) == IF c.N >= 0 THEN Connect(m, c) ELSE m

\* the loops of __connect_neuronal_populations over target i and source j
RECURSIVE ConnectPopsFrom(_, _, _)
ConnectPopsFrom(m, i, j) ==
    IF m.exc \/ i > Len(m.self.pops.v) THEN m
    ELSE IF j > Len(m.self.pops.v) THEN ConnectPopsFrom(m, i + 1, 1)
    ELSE LET N  == m.self.num_synapses[i][j]
             c  == ConnRec("rec", i, j, "fixed_total_number", N,
                           RecWeight(m.self.weight_matrix_mean[i][j], m.self.nest_version),
                           Delay(net_dict.delay_matrix_mean[i][j], net_dict.delay_rel_std,
                                 m.self.sim_resolution, m.self.nest_version))
         IN  ConnectPopsFrom(ConnectPair(m, c), i, j + 1)

\* self.pops is read first: without it the method raises AttributeError
ConnectNeuronalPopulations(m) ==
    IF m.exc THEN m
    ELSE IF ~m.self.pops.set THEN Raise(m)
    ELSE ConnectPopsFrom(m, 1, 1)

RECURSIVE ConnectRecFrom(_, _)
ConnectRecFrom(m, i) ==
    IF m.exc \/ i > Len(m.self.pops.v) THEN m
    ELSE LET m1 == IF "spike_recorder" \in sim_dict.rec_dev
                   THEN IF m.self.spike_recorders.set
                        THEN Connect(m, ConnRec("spike_recorder", i, i, "all_to_all", 0,
                                                Default, Default))
                        ELSE Raise(m)
                   ELSE m
             m2 == IF m1.exc THEN m1
                   ELSE IF "voltmeter" \in sim_dict.rec_dev
                   THEN IF m1.self.voltmeters.set
                        THEN Connect(m1, ConnRec("voltmeter", i, i, "all_to_all", 0,
                                                 Default, Default))
                        ELSE Raise(m1)
                   ELSE m1
         IN  ConnectRecFrom(m2, i + 1)

ConnectRecordingDevices(m) ==
    IF m.exc THEN m
    ELSE IF ~m.self.pops.set THEN Raise(m)
    ELSE ConnectRecFrom(m, 1)

RECURSIVE ConnectPoissonFrom(_, _)
ConnectPoissonFrom(m, i) ==
    IF m.exc \/ i > Len(m.self.pops.v) THEN m
    ELSE LET m1 == IF m.self.poisson_bg_input.set
                   THEN Connect(m, ConnRec("poisson", i, i, "all_to_all", 0,
                                           Const(m.self.weight_ext),
                                           Const(net_dict.delay_poisson)))
                   ELSE Raise(m)
         IN  ConnectPoissonFrom(m1, i + 1)

ConnectPoissonBgInput(m) ==
    IF m.exc THEN m
    ELSE IF ~m.self.pops.set THEN Raise(m)
    ELSE ConnectPoissonFrom(m, 1)

RECURSIVE ConnectThalamicFrom(_, _)
ConnectThalamicFrom(m, i) ==
    IF m.exc \/ i > Len(m.self.pops.v) THEN m
    ELSE LET c == ConnRec("th", i, 0, "fixed_total_number", m.self.num_th_synapses[i],
                          ThWeight(m.self.weight_th, m.self.nest_version),
                          Delay(stim_dict.delay_th_mean, stim_dict.delay_th_rel_std,
                                m.self.sim_resolution, m.self.nest_version))
         IN  ConnectThalamicFrom(Connect(m, c), i + 1)

\* the Poisson generator is connected to the thalamic population first
ConnectThalamicStimInput(m) ==
    IF m.exc THEN m
    ELSE IF ~(m.self.poisson_th.set /\ m.self.thalamic_population.set) THEN Raise(m)
    ELSE LET m1 == Connect(m, ConnRec("th_generator", 0, 0, "all_to_all", 0,
                                      Default, Default))
         IN  IF ~m1.self.pops.set THEN Raise(m1) ELSE ConnectThalamicFrom(m1, 1)

RECURSIVE ConnectDcFrom(_, _)
ConnectDcFrom(m, i) ==
    IF m.exc \/ i > Len(m.self.pops.v) THEN m
    ELSE LET m1 == IF m.self.dc_stim_input.set
                   THEN Connect(m, ConnRec("dc", i, i, "all_to_all", 0, Default, Default))
                   ELSE Raise(m)
         IN  ConnectDcFrom(m1, i + 1)

ConnectDcStimInput(m) ==
    IF m.exc THEN m
    ELSE IF ~m.self.pops.set THEN Raise(m)
    ELSE ConnectDcFrom(m, 1)

\* variant: a failure of a connection step is dropped before nest.Prepare()
DoConnectSwallowed(m) ==
    LET m1 == ConnectNeuronalPopulations(m)
        m2 == IF sim_dict.rec_dev # {} THEN ConnectRecordingDevices(m1) ELSE m1
        m3 == IF net_dict.poisson_input THEN ConnectPoissonBgInput(m2) ELSE m2
        m4 == IF stim_dict.thalamic_input THEN ConnectThalamicStimInput(m3) ELSE m3
        m5 == IF stim_dict.dc_input THEN ConnectDcStimInput(m4) ELSE m4
    IN  Prepare([m5 EXCEPT !.exc = FALSE])
DoConnect(m) ==
    LET m1 == ConnectNeuronalPopulations(m)
        m2 == IF sim_dict.rec_dev # {} THEN ConnectRecordingDevices(m1) ELSE m1
        m3 == IF net_dict.poisson_input THEN ConnectPoissonBgInput(m2) ELSE m2
        m4 == IF stim_dict.thalamic_input THEN ConnectThalamicStimInput(m3) ELSE m3
        m5 == IF stim_dict.dc_input THEN ConnectDcStimInput(m4) ELSE m4
    IN  Prepare(m5)

-----------------------------------------------------------------------------
\* Network.simulate

\* try: nest.Prepare() except BaseException: print(...)
\* variant: the exception of nest.Prepare() is not caught
TryPrepareUncaught(m) == Prepare(m)
TryPrepare(m) == [Prepare(m) EXCEPT !.exc = FALSE]

\* nest.Prepare() (caught), nest.Run(t_sim), nest.Cleanup()
\* variants: nest.Cleanup() issued before nest.Run; nest.Cleanup() left out;
\* nest.Run given the total time so far
DoSimulateCleanupFirst(m, t_sim) == Run(Cleanup(TryPrepare(m)), t_sim)
DoSimulateNoCleanup(m, t_sim) == Run(TryPrepare(m), t_sim)
DoSimulateTotal(m, t_sim) == Cleanup(Run(TryPrepare(m), m.nest.time + t_sim))
DoSimulate(m, t_sim) == Cleanup(Run(TryPrepare(m), t_sim))

-----------------------------------------------------------------------------
\* The configurations explored

PSPMatrix(p) ==
    [i \in Pops |-> [j \in Pops |-> IF j % 2 = 1 THEN Rat(p, 1) ELSE Rat(-p, 1)]]

DefaultSim == [rec_dev |-> {"spike_recorder"}, sim_resolution |-> Rat(1, 10)]

DefaultNet ==
    [N_scaling |-> One, K_scaling |-> One,
     full_num_neurons |-> [i \in Pops |-> 2 * i + 2],
     K_ext |-> [i \in Pops |-> i + 2],
     PSP_matrix_mean |-> PSPMatrix(1), PSP_exc_mean |-> Rat(1, 1),
     poisson_input |-> TRUE, V0_type |-> "optimized",
     weight_rel_std |-> Rat(1, 10),
     delay_matrix_mean |->
         [i \in Pops |-> [j \in Pops |-> IF j % 2 = 1 THEN Rat(3, 2) ELSE Rat(3, 4)]],
     delay_rel_std |-> Rat(1, 2), delay_poisson |-> Rat(3, 2)]

DefaultStim ==
    [given |-> TRUE, thalamic_input |-> FALSE, dc_input |-> FALSE,
     PSP_th |-> Rat(1, 1), num_th_neurons |-> 3,
     delay_th_mean |-> Rat(3, 2), delay_th_rel_std |-> Rat(1, 2)]

\* stim_dict = None
NoStim == [DefaultStim EXCEPT !.given = FALSE]

DefaultHelpers ==
    [full_num_synapses |-> [i \in Pops |-> [j \in Pops |-> Rat(2, 1)]],
     th_num_synapses |-> [i \in Pops |-> Rat(3, 1)],
     PSC_over_PSP |-> Rat(2, 1),
     dc_comp |-> [i \in Pops |-> Rat(i, 1)],
     adj_gain |-> Rat(2, 1),
     adj_DC |-> [i \in Pops |-> Zero]]

NScalings == {Rat(n, ScaleDen) : n \in 1 .. ScaleDen}
KScalings == {Rat(s * s, SqrtDen * SqrtDen) : s \in 1 .. SqrtDen}
Revisions == {"2", "3"}
\* what the adjustment may return for the DC amplitudes, and its weight gain
AdjDCs == {[i \in Pops |-> Rat(b * i, 1)] : b \in {0, 1}}
AdjGains == {Rat(2, 1), Rat(3, 1)}

\* the dictionaries a caller has set up, before Network(...) is called
Configured(sd, nd, st, h, revision, n) ==
    /\ sim_dict = sd
    /\ net_dict = nd
    /\ stim_dict = st
    /\ helpers = h
    /\ self = NoObject
    /\ nest = NestReset(revision)
    /\ log = << >>
    /\ calls = << >>
    /\ budget = n

\* scalings and expected synapse counts vary
InitCounts ==
    \E a \in 0 .. MaxExp, b \in 0 .. MaxExp, c \in 0 .. MaxExp,
       N \in NScalings, K \in KScalings :
        Configured(DefaultSim,
                    [DefaultNet EXCEPT !.N_scaling = N, !.K_scaling = K],
                    [DefaultStim EXCEPT !.thalamic_input = TRUE],
                    [DefaultHelpers EXCEPT
                        !.full_num_synapses =
                            [i \in Pops |-> [j \in Pops |->
                                Rat(5 * (IF i = j THEN a ELSE b), ExpDen)]],
                        !.th_num_synapses =
                            [i \in Pops |-> Rat(5 * (IF i % 2 = 1 THEN c ELSE 0), ExpDen)]],
                    "3", PlanCalls)

\* weights, background input, indegree scaling and kernel revision vary
InitWeights ==
    \E p \in -MaxPSP .. MaxPSP, pth \in -MaxPSP .. MaxPSP, poisson \in BOOLEAN,
       K \in KScalings, revision \in Revisions, res \in {Rat(1, 10), Rat(1, 2)} :
        \E g \in IF REq(K, One) THEN {Rat(2, 1)} ELSE AdjGains,
           dc \in IF REq(K, One) THEN {[i \in Pops |-> Zero]} ELSE AdjDCs :
            Configured([DefaultSim EXCEPT !.sim_resolution = res],
                        [DefaultNet EXCEPT !.K_scaling = K, !.poisson_input = poisson,
                                           !.PSP_matrix_mean = PSPMatrix(p)],
                        [DefaultStim EXCEPT !.thalamic_input = TRUE,
                                            !.PSP_th = Rat(pth, 1)],
                        [DefaultHelpers EXCEPT !.adj_gain = g, !.adj_DC = dc],
                        revision, PlanCalls)

\* the devices, the stimulus and the initial-voltage mode vary
InitLifecycle ==
    \E rec \in {{}, {"spike_recorder", "voltmeter"}}, poisson \in BOOLEAN,
       th \in BOOLEAN, dc \in BOOLEAN, V0 \in {"optimized", "original", "other"},
       revision \in Revisions, given \in BOOLEAN :
        /\ (~given => ~th /\ ~dc)
        /\ Configured([DefaultSim EXCEPT !.rec_dev = rec],
                       [DefaultNet EXCEPT !.poisson_input = poisson, !.V0_type = V0],
                       [DefaultStim EXCEPT !.given = given, !.thalamic_input = th,
                                           !.dc_input = dc],
                       DefaultHelpers, revision, MaxCalls)

Init == InitCounts \/ InitWeights \/ InitLifecycle

\* every device and stimulus is on, and the kernel may hold the cause of a
\* failure
InitFaults ==
    \E f \in Faults \cup {"none"}, revision \in Revisions :
        /\ sim_dict = [DefaultSim EXCEPT !.rec_dev = {"spike_recorder", "voltmeter"}]
        /\ net_dict = [DefaultNet EXCEPT !.poisson_input = TRUE]
        /\ stim_dict = [DefaultStim EXCEPT !.thalamic_input = TRUE, !.dc_input = TRUE]
        /\ helpers = DefaultHelpers
        /\ self = NoObject
        /\ nest = Faulty(NestReset(revision), f)
        /\ log = << >>
        /\ calls = << >>
        /\ budget = MaxCalls

-----------------------------------------------------------------------------
\* The caller's operations on the constructed object

Method == [self |-> self, nest |-> nest, log |-> log, exc |-> FALSE,
           call |-> Len(calls) + 1]

Returns(m, op, t) ==
    /\ self' = m.self
    /\ nest' = m.nest
    /\ log' = m.log
    /\ calls' = Append(calls, [op |-> op, t |-> t, ok |-> ~m.exc])
    /\ UNCHANGED <<sim_dict, net_dict, stim_dict, helpers, budget>>

Callable == self.constructed /\ Len(calls) < budget

\* Network(sim_dict, net_dict, stim_dict): __init__ derives the parameters and
\* then resets the kernel
Network ==
    /\ ~self.constructed /\ ~self.raised
    /\ self' = DeriveParameters(sim_dict, net_dict, stim_dict, helpers, nest.revision)
    /\ nest' = IF stim_dict.given THEN Faulty(NestReset(nest.revision), nest.fault)
                                  ELSE nest
    /\ UNCHANGED <<sim_dict, net_dict, stim_dict, helpers, log, calls, budget>>

create ==
    /\ Callable
    /\ Returns(DoCreate(Method), "create", 0)

connect ==
    /\ Callable
    /\ Returns(DoConnect(Method), "connect", 0)

simulate ==
    /\ Callable
    /\ \E t_sim \in SimTimes : Returns(DoSimulate(Method, t_sim), "simulate", t_sim)

Next == Network \/ create \/ connect \/ simulate

Spec == Init /\ [][Next]_vars

\* the same operations on a kernel that may fail
SpecFaults == InitFaults /\ [][Next]_vars

-----------------------------------------------------------------------------
\* Properties

Abs(n) == IF n < 0 THEN -n ELSE n

\* n is the integer nearest to the rational x, the even one of the two when
\* x lies halfway between them
IsRounded(n, x) ==
    /\ 2 * Abs(n * x[2] - x[1]) <= x[2]
    /\ (2 * Abs(n * x[2] - x[1]) = x[2] => n % 2 = 0)

\* the full-scale expected synapse count of a pair, scaled by N_scaling * K_scaling
ScaledExpected(i, j) ==
    RMul(RMul(helpers.full_num_synapses[i][j], net_dict.N_scaling), net_dict.K_scaling)

\* C1: every entry of num_synapses is the scaled expected count rounded to
\* the nearest integer (np.round: ties to even), it is never negative, and an
\* expected count of zero gives zero synapses.
C1_CountRounding ==
    self.constructed => \A i \in Pops, j \in Pops :
        /\ IsRounded(self.num_synapses[i][j], ScaledExpected(i, j))
        /\ self.num_synapses[i][j] >= 0
        /\ (helpers.full_num_synapses[i][j][1] = 0 => self.num_synapses[i][j] = 0)

\* C1 witness: both scalings are below 1, one pair has expected count 0 and
\* another a fractional scaled count that rounds up to a positive number.
C1_Witness ==
    /\ self.constructed
    /\ ~REq(net_dict.N_scaling, One) /\ KScaled(net_dict)
    /\ \E i \in Pops, j \in Pops : helpers.full_num_synapses[i][j][1] = 0
    /\ \E i \in Pops, j \in Pops :
          /\ self.num_synapses[i][j] >= 1
          /\ self.num_synapses[i][j] * ScaledExpected(i, j)[2] > ScaledExpected(i, j)[1]

\* C2 as stated: with Poisson input the DC amplitude of every population is
\* zero, whatever K_scaling is.
C2_ZeroBiasWithPoisson ==
    self.constructed /\ net_dict.poisson_input => \A i \in Pops : REq(self.DC_amp[i], Zero)

\* C2 amended: with Poisson input and K_scaling = 1 the DC amplitude of every
\* population is zero; with K_scaling != 1 the DC amplitudes are those the
\* adjustment to the synapse scaling returned.
C2_BiasAmended ==
    self.constructed =>
        /\ (net_dict.poisson_input /\ ~KScaled(net_dict)
                => \A i \in Pops : REq(self.DC_amp[i], Zero))
        /\ (KScaled(net_dict) => \A i \in Pops : REq(self.DC_amp[i], helpers.adj_DC[i]))

\* C2 witness: Poisson input, scaled indegrees, and the adjustment returned a
\* non-zero DC amplitude, which the object holds.
C2_Witness ==
    /\ self.constructed
    /\ net_dict.poisson_input /\ KScaled(net_dict)
    /\ \E i \in Pops : ~REq(self.DC_amp[i], Zero)

\* the thalamic weight before the scaling of the indegrees
FullWeightTh == RMul(stim_dict.PSP_th, helpers.PSC_over_PSP)

\* C3: with thalamic input and K_scaling = k, num_th_synapses is the expected
\* thalamic count times k, rounded, and weight_th is the full-scale thalamic
\* weight divided by sqrt(k) (its square times k is the square of the
\* full-scale weight, and its sign is kept); at k = 1 neither is changed, and
\* nothing the general adjustment returns enters either value.
C3_ThalamicScaling ==
    (self.constructed /\ stim_dict.thalamic_input) =>
        /\ self.has_th
        /\ \A i \in Pops :
              IsRounded(self.num_th_synapses[i],
                        RMul(helpers.th_num_synapses[i], net_dict.K_scaling))
        /\ REq(RMul(RMul(self.weight_th, self.weight_th), net_dict.K_scaling),
               RMul(FullWeightTh, FullWeightTh))
        /\ (RLt(self.weight_th, Zero) <=> RLt(FullWeightTh, Zero))
        /\ (~KScaled(net_dict) =>
               /\ REq(self.weight_th, FullWeightTh)
               /\ \A i \in Pops :
                     IsRounded(self.num_th_synapses[i], helpers.th_num_synapses[i]))

\* C3 witness: thalamic input with scaled indegrees, the general adjustment
\* was called, and the thalamic weight and a thalamic count both changed.
C3_Witness ==
    /\ self.constructed
    /\ stim_dict.thalamic_input /\ KScaled(net_dict)
    /\ Len(self.adjust_calls) = 1
    /\ ~REq(self.weight_th, FullWeightTh)
    /\ \E i \in Pops : /\ self.num_th_synapses[i] >= 1
                       /\ ~IsRounded(self.num_th_synapses[i], helpers.th_num_synapses[i])


\* the connections of the kernel that a clipped distribution was built for
Clipped == {k \in 1 .. Len(nest.conns) : nest.conns[k].kind \in {"rec", "th"}}

\* C4: the weight distribution of every recurrent and thalamic connection is
\* clipped by the sign of its mean: a negative mean has the range (-inf, 0]
\* and no accepted weight above 0, any other mean the range [0, inf) and no
\* accepted weight below 0; the standard deviation is |mean| * weight_rel_std
\* and not negative.
C4_WeightPolarity ==
    \A k \in Clipped :
        LET w == nest.conns[k].weight
        IN  /\ RLt(w.mean, Zero) =>
                  /\ w.max.k = "fin" /\ REq(w.max.v, Zero) /\ w.min.k # "fin"
                  /\ \A x \in Samples : Accepts(w, x) => RLe(x, Zero)
            /\ ~RLt(w.mean, Zero) =>
                  /\ w.min.k = "fin" /\ REq(w.min.v, Zero) /\ w.max.k # "fin"
                  /\ \A x \in Samples : Accepts(w, x) => RLe(Zero, x)
            /\ REq(w.std, RMul(RAbs(w.mean), net_dict.weight_rel_std))
            /\ RLe(Zero, w.std)

HalfStep == RMul(Rat(1, 2), sim_dict.sim_resolution)

\* C5 as stated: in both kernel revisions the delay of every recurrent and
\* thalamic connection has the lower clip bound dt / 2 and no upper bound.
C5_DelayFloorHalfStep ==
    \A k \in Clipped :
        LET d == nest.conns[k].delay
        IN  /\ d.min.k = "fin" /\ REq(d.min.v, HalfStep)
            /\ d.max.k # "fin"

\* C5 amended: the lower clip bound of the delay is dt / 2 in revision 3 and
\* dt in revision 2; in both there is no upper bound and no accepted delay is
\* below dt / 2.
C5_DelayFloorAmended ==
    \A k \in Clipped :
        LET d == nest.conns[k].delay
        IN  /\ d.min.k = "fin"
            /\ (nest.revision = "3" => REq(d.min.v, HalfStep))
            /\ (nest.revision = "2" => REq(d.min.v, sim_dict.sim_resolution))
            /\ d.max.k # "fin"
            /\ \A x \in Samples : Accepts(d, x) => RLe(HalfStep, x)

\* C5 witness: revision 2 has connected recurrent and thalamic populations,
\* and a delay between dt / 2 and dt is not accepted.
C5_Witness ==
    /\ nest.revision = "2"
    /\ \E k \in Clipped : nest.conns[k].kind = "rec"
    /\ \E k \in Clipped :
          /\ nest.conns[k].kind = "th"
          /\ \E x \in Samples : RLe(HalfStep, x) /\ ~Accepts(nest.conns[k].delay, x)

\* C6: among the kernel calls, no creation of a neuronal population follows
\* a connection call, no connection call follows a prepare call, and every
\* run call has a prepare call before it.
C6_CallOrder ==
    /\ \A i \in 1 .. Len(log), j \in 1 .. Len(log) :
          i < j =>
            /\ ~(log[i].op = "Connect" /\ log[j].op = "Create" /\ log[j].arg = "neuron")
            /\ ~(log[i].op = "Prepare" /\ log[j].op = "Connect")
    /\ \A j \in 1 .. Len(log) :
          log[j].op = "Run" => \E i \in 1 .. j - 1 : log[i].op = "Prepare"

\* the caller made a successful create(), then at most one successful
\* connect(), then only simulate() calls
Lifecycle ==
    /\ Len(calls) >= 1
    /\ calls[1].op = "create" /\ calls[1].ok
    /\ \A k \in 2 .. Len(calls) :
          \/ calls[k].op = "simulate"
          \/ k = 2 /\ calls[k].op = "connect" /\ calls[k].ok
HasConnect == Len(calls) >= 2 /\ calls[2].op = "connect"
Simulations == {k \in 1 .. Len(calls) : calls[k].op = "simulate"}
Prepared == {i \in 1 .. Len(log) : log[i].op = "Prepare" /\ log[i].ok}

\* C7 as stated: over create(), an optional connect() and any number of
\* simulate() calls, nest.Prepare() succeeds exactly once.
C7_PrepareOnce ==
    (Lifecycle /\ (HasConnect \/ Simulations # {})) => Cardinality(Prepared) = 1

\* C7 amended: nest.Prepare() succeeds at the end of connect() or else at the
\* start of the first simulate(), and again at the start of every later
\* simulate(): after n >= 1 simulate() calls it has succeeded n times, with a
\* successful nest.Cleanup() between any two successes.
C7_PrepareAmended ==
    Lifecycle =>
        /\ Cardinality(Prepared) =
              IF HasConnect /\ Simulations = {} THEN 1 ELSE Cardinality(Simulations)
        /\ \A i \in Prepared, j \in Prepared :
              i < j => \E c \in i + 1 .. j - 1 : log[c].op = "Cleanup" /\ log[c].ok

\* C7 witness: connect() and two simulate() calls, nest.Prepare() succeeded twice.
C7_Witness ==
    /\ Lifecycle /\ HasConnect
    /\ Cardinality(Simulations) = 2
    /\ Cardinality(Prepared) = 2

\* C8: a connect() or simulate() call made before any create() raises, and
\* issues no nest.Connect and no nest.Run.
C8_RaisesBeforeCreate ==
    \A k \in 1 .. Len(calls) :
        (/\ calls[k].op \in {"connect", "simulate"}
         /\ \A b \in 1 .. k - 1 : calls[b].op # "create")
        => /\ ~calls[k].ok
           /\ \A i \in 1 .. Len(log) :
                 log[i].call = k => log[i].op \notin {"Connect", "Run"}

\* the derived parameters an object holds
Plan(o) ==
    [num_neurons |-> o.num_neurons, num_synapses |-> o.num_synapses,
     ext_indegrees |-> o.ext_indegrees, weight_matrix_mean |-> o.weight_matrix_mean,
     weight_ext |-> o.weight_ext, DC_amp |-> o.DC_amp, weight_th |-> o.weight_th,
     num_th_synapses |-> o.num_th_synapses]

\* the nest.Prepare() calls of simulate() that raised
Redundant ==
    {i \in 1 .. Len(log) :
        log[i].op = "Prepare" /\ ~log[i].ok /\ calls[log[i].call].op = "simulate"}

\* C9: a nest.Prepare() that raises in simulate() because the kernel is
\* already prepared leaves the kernel as it was (still prepared), the
\* simulate() call goes on with a successful nest.Run and returns normally,
\* and the derived parameters are those computed at construction.
C9_RedundantPrepareIgnored ==
    \A i \in Redundant :
        /\ i > 1 /\ log[i].after = log[i - 1].after
        /\ log[i].after.prepared
        /\ i < Len(log)
        /\ log[i + 1].op = "Run" /\ log[i + 1].ok /\ log[i + 1].call = log[i].call
        /\ calls[log[i].call].ok
        /\ Plan(self) =
              Plan(DeriveParameters(sim_dict, net_dict, stim_dict, helpers, nest.revision))

\* C9 witness: connect() prepared the kernel, then simulate() tried again.
C9_Witness ==
    \E i \in Redundant :
        /\ calls[log[i].call - 1].op = "connect" /\ calls[log[i].call - 1].ok
        /\ \E j \in 1 .. i - 1 : log[j].op = "Prepare" /\ log[j].ok

RECURSIVE TotalTime(_)
TotalTime(k) == IF k = 0 THEN 0
                ELSE TotalTime(k - 1) + (IF calls[k].op = "simulate" THEN calls[k].t ELSE 0)

\* C10: after a successful create() and connect(), every simulate(t) returns
\* normally and issues exactly one nest.Run, of duration t, which succeeds;
\* the kernel time is the sum of the durations.
C10_SimulateRepeatable ==
    (Lifecycle /\ HasConnect) =>
        /\ \A k \in Simulations :
              /\ calls[k].ok
              /\ Cardinality({i \in 1 .. Len(log) : log[i].call = k /\ log[i].op = "Run"}) = 1
              /\ \A i \in 1 .. Len(log) :
                    (log[i].call = k /\ log[i].op = "Run") =>
                        log[i].ok /\ log[i].t = calls[k].t
        /\ nest.time = TotalTime(Len(calls))

\* C10 witness: two simulate() calls of different durations after connect().
C10_Witness ==
    /\ Lifecycle /\ HasConnect
    /\ Len(calls) = 4
    /\ calls[3].t # calls[4].t
    /\ nest.time = calls[3].t + calls[4].t


Cleanups == {i \in 1 .. Len(log) : log[i].op = "Cleanup"}
Runs == {i \in 1 .. Len(log) : log[i].op = "Run"}

\* C11 as stated: over create(), an optional connect() and n >= 1 simulate()
\* calls, nest.Cleanup() is invoked once and no nest.Run follows it.
C11_CleanupOnce ==
    (Lifecycle /\ Simulations # {}) =>
        /\ Cardinality(Cleanups) = 1
        /\ \A c \in Cleanups, r \in Runs : r < c

\* C11 amended: every simulate() call ends with one successful
\* nest.Cleanup(), issued right after the nest.Run of that call: n simulate()
\* calls invoke it n times, create() and connect() never, and only the
\* nest.Run calls of later simulate() calls follow a cleanup.
C11_CleanupAmended ==
    Lifecycle =>
        /\ Cardinality(Cleanups) = Cardinality(Simulations)
        /\ \A c \in Cleanups :
              /\ log[c].ok
              /\ calls[log[c].call].op = "simulate"
              /\ c > 1 /\ log[c - 1].op = "Run" /\ log[c - 1].call = log[c].call
        /\ \A c \in Cleanups, r \in Runs : c < r => log[c].call < log[r].call

\* C11 witness: two simulate() calls, two cleanups, a run after the first one.
C11_Witness ==
    /\ Lifecycle
    /\ Cardinality(Simulations) = 2
    /\ Cardinality(Cleanups) = 2
    /\ \E c \in Cleanups, r \in Runs : c < r

\* C12: a create() call under an unsupported V0_type raises, and no nest.Create
\* has been issued by that call when it raises: it adds no node to the kernel.
C12_V0ErrorBeforeCreate ==
    \A k \in 1 .. Len(calls) :
        (calls[k].op = "create" /\ ~V0Valid)
        => /\ ~calls[k].ok
           /\ \A i \in 1 .. Len(log) : log[i].call = k => log[i].op # "Create"
           /\ (k = 1 => nest.nodes = 0)

\* C13: the derived parameters (num_neurons, num_synapses, ext_indegrees,
\* weight_matrix_mean, weight_ext, DC_amp, weight_th, num_th_synapses) are set
\* by the step that constructs the object, while the kernel holds no node and
\* has received no call, and no later step changes any of them.
C13_PlanFrozen ==
    [][/\ (~self.constructed /\ self'.constructed)
          => /\ log = << >> /\ log' = << >>
             /\ nest.nodes = 0 /\ nest'.nodes = 0
             /\ Plan(self') =
                   Plan(DeriveParameters(sim_dict, net_dict, stim_dict, helpers,
                                         nest.revision))
       /\ self.constructed => (self'.constructed /\ Plan(self') = Plan(self))]_vars

\* C13 witness: create(), connect() and simulate() have all run, nodes exist,
\* and the derived parameters are those computed at construction.
C13_Witness ==
    /\ self.constructed
    /\ \A op \in {"create", "connect", "simulate"} :
          \E k \in 1 .. Len(calls) : calls[k].op = op /\ calls[k].ok
    /\ nest.nodes > 0
    /\ Plan(self) =
          Plan(DeriveParameters(sim_dict, net_dict, stim_dict, helpers, nest.revision))

\* C14: Network(sim_dict, net_dict) without a stimulus dictionary (stim_dict =
\* None) does not raise: once the constructor has run the object exists, it
\* holds no thalamic fields, and a create() followed by a connect() on it
\* both return normally without any thalamic or DC stimulus device.
C14_StimulusOptional ==
    ~stim_dict.given =>
        /\ ~self.raised
        /\ self.constructed =>
              /\ ~self.has_th
              /\ (Len(calls) >= 1 /\ calls[1].op = "create") => calls[1].ok
              /\ (Len(calls) >= 2 /\ calls[1].op = "create" /\ calls[2].op = "connect")
                    => calls[2].ok
              /\ \A i \in 1 .. Len(log) :
                    log[i].op = "Create" => log[i].arg \notin {"parrot_neuron", "dc_generator"}

\* the entries of the kernel's connection list of one kind and target
ConnsOf(kind, tgt, src) ==
    {k \in 1 .. Len(nest.conns) :
        /\ nest.conns[k].kind = kind
        /\ nest.conns[k].tgt = tgt /\ nest.conns[k].src = src}

\* C15: in a connect() after a successful create(), every population pair and
\* every thalamic channel gets one nest.Connect with the rule
\* fixed_total_number and its synapse count N, a count of 0 included (the rule
\* then asks for no connection at all); no such call raises, the pairs and
\* channels after one with N = 0 are connected as well, and connect() returns
\* normally.
C15_ZeroCountNoOp ==
    (Lifecycle /\ HasConnect) =>
        /\ calls[2].ok
        /\ \A i \in Pops, j \in Pops :
              /\ Cardinality(ConnsOf("rec", i, j)) = 1
              /\ \A k \in ConnsOf("rec", i, j) :
                    /\ nest.conns[k].rule = "fixed_total_number"
                    /\ nest.conns[k].N = self.num_synapses[i][j]
        /\ stim_dict.thalamic_input =>
              \A i \in Pops :
                  /\ Cardinality(ConnsOf("th", i, 0)) = 1
                  /\ \A k \in ConnsOf("th", i, 0) :
                        /\ nest.conns[k].rule = "fixed_total_number"
                        /\ nest.conns[k].N = self.num_th_synapses[i]
        /\ \A i \in 1 .. Len(log) : log[i].op = "Connect" => log[i].ok

\* C15 witness: a pair with N = 0 was connected before a pair with N > 0, and
\* a thalamic channel with N = 0 before the next channel.
C15_Witness ==
    /\ Lifecycle /\ HasConnect
    /\ \E k \in 1 .. Len(nest.conns), l \in 1 .. Len(nest.conns) :
          /\ k < l
          /\ nest.conns[k].kind = "rec" /\ nest.conns[k].N = 0
          /\ nest.conns[l].kind = "rec" /\ nest.conns[l].N > 0
    /\ \E k \in 1 .. Len(nest.conns), l \in 1 .. Len(nest.conns) :
          /\ k < l
          /\ nest.conns[k].kind = "th" /\ nest.conns[k].N = 0
          /\ nest.conns[l].kind = "th"

\* the converted weights and the bias of the steps before the adjustment
ConvertedW(i, j) == RMul(net_dict.PSP_matrix_mean[i][j], helpers.PSC_over_PSP)
ConvertedExt == RMul(net_dict.PSP_exc_mean, helpers.PSC_over_PSP)
BiasStep(i) == IF net_dict.poisson_input THEN Zero ELSE helpers.dc_comp[i]

\* C17: the adjustment to the indegree scaling is called once when
\* K_scaling != 1 and not at all when K_scaling = 1. The call is given the
\* full-scale neuron and synapse counts, the converted weights and the bias
\* computed before it; weight_matrix_mean, weight_ext and DC_amp are then its
\* three return values. With K_scaling = 1 they are the converted weights
\* and that bias.
C17_AdjustIffScaled ==
    self.constructed =>
        /\ Len(self.adjust_calls) = IF REq(net_dict.K_scaling, One) THEN 0 ELSE 1
        /\ \A n \in 1 .. Len(self.adjust_calls) :
              LET a == self.adjust_calls[n]
                  r == AdjustWeightsAndInput(a.PSC_matrix_mean, a.PSC_ext, a.DC_amp,
                                             helpers)
              IN  /\ a.full_num_neurons = net_dict.full_num_neurons
                  /\ a.full_num_synapses = helpers.full_num_synapses
                  /\ \A i \in Pops :
                        /\ REq(a.DC_amp[i], BiasStep(i))
                        /\ \A j \in Pops : REq(a.PSC_matrix_mean[i][j], ConvertedW(i, j))
                  /\ REq(a.PSC_ext, ConvertedExt)
                  /\ self.weight_matrix_mean = r.W
                  /\ self.weight_ext = r.ext
                  /\ self.DC_amp = r.DC
        /\ REq(net_dict.K_scaling, One) =>
              /\ REq(self.weight_ext, ConvertedExt)
              /\ \A i \in Pops :
                    /\ REq(self.DC_amp[i], BiasStep(i))
                    /\ \A j \in Pops : REq(self.weight_matrix_mean[i][j], ConvertedW(i, j))

\* C17 witness: an object built with N_scaling and K_scaling below 1: the
\* scaled counts differ from the full-scale counts the call was given, and
\* the weights held differ from the converted ones.
C17_Witness ==
    /\ self.constructed
    /\ Len(self.adjust_calls) = 1
    /\ self.num_neurons # net_dict.full_num_neurons
    /\ \E i \in Pops, j \in Pops :
          /\ ~REq(Rat(self.num_synapses[i][j], 1), helpers.full_num_synapses[i][j])
          /\ ~REq(self.weight_matrix_mean[i][j], ConvertedW(i, j))

\* the kernel calls that raised: nest.Prepare() in simulate(), nest.Connect
\* in connect()
FailedPrepares ==
    {i \in 1 .. Len(log) :
        log[i].op = "Prepare" /\ ~log[i].ok /\ calls[log[i].call].op = "simulate"}
FailedConnects ==
    {i \in 1 .. Len(log) :
        log[i].op = "Connect" /\ ~log[i].ok /\ calls[log[i].call].op = "connect"}
OfCall(k, op) == {i \in 1 .. Len(log) : log[i].call = k /\ log[i].op = op}

\* a nest.Connect that raised ends its connect() call: the call raises and
\* has issued nothing after it, no nest.Prepare() in particular
ConnectFailurePropagates ==
    \A i \in FailedConnects :
        /\ ~calls[log[i].call].ok
        /\ OfCall(log[i].call, "Prepare") = {}
        /\ \A j \in i + 1 .. Len(log) : log[j].call # log[i].call

\* C18 as stated: after a nest.Prepare() that raised in simulate(), for
\* whatever cause, the same call issues nest.Run and nest.Cleanup; and a
\* nest.Connect that raised makes connect() raise without a nest.Prepare().
C18_PrepareFailureSwallowed ==
    /\ \A i \in FailedPrepares :
          /\ i < Len(log)
          /\ log[i + 1].op = "Run" /\ log[i + 1].call = log[i].call
          /\ OfCall(log[i].call, "Cleanup") # {}
    /\ ConnectFailurePropagates

\* C18 amended: after a nest.Prepare() that raised in simulate(), for
\* whatever cause, the same call issues nest.Run next; nest.Cleanup is issued
\* after it exactly when that nest.Run did not raise, and when it raised
\* (the kernel was not prepared) simulate() raises. A nest.Connect that
\* raised makes connect() raise without a nest.Prepare().
C18_PrepareFailureAmended ==
    /\ \A i \in FailedPrepares :
          /\ i < Len(log)
          /\ log[i + 1].op = "Run" /\ log[i + 1].call = log[i].call
          /\ log[i + 1].ok <=> OfCall(log[i].call, "Cleanup") # {}
          /\ log[i + 1].ok <=> log[i].after.prepared
          /\ ~log[i + 1].ok => ~calls[log[i].call].ok
    /\ ConnectFailurePropagates

\* C18 witness: a nest.Prepare() raised in simulate() on a kernel that was
\* not prepared, and the call went on to nest.Run.
C18_Witness ==
    \E i \in FailedPrepares :
        /\ ~log[i].after.prepared
        /\ i < Len(log) /\ log[i + 1].op = "Run"

====
